---- MODULE Spec2Model ----
(***************************************************************************)
(* The artisan/product catalog service of artisan-connect:                 *)
(*   backend/app.py    the request handlers                                *)
(*   backend/utils.py  save_image_and_enhance, translate_and_enrich        *)
(*   backend/models.py the Artisan and Product tables                      *)
(* Each request handler is one action.  Text that the handlers only store  *)
(* and return is a TLA+ string; text that the store pattern-matches (names *)
(* and locations) is a sequence of one-character strings.                  *)
(***************************************************************************)
EXTENDS Integers, Sequences, FiniteSets, TLC

VARIABLES
    genai_client,    \* utils.genai_client: TRUE when the client was built at import
    backend_origin,  \* app.BACKEND_ORIGIN
    artisans,        \* table "artisans": id -> row
    products,        \* table "products": id -> row
    artisan_seq,     \* last id the store gave to an artisan
    product_seq,     \* last id the store gave to a product
    files,           \* the file system: path -> bytes
    uuid_seq,        \* how many uuid4 names have been drawn
    session,         \* events of the session of the most recent request
    last,            \* the most recent request and its response
    nreq,            \* requests served so far
    workers          \* the requests in flight: worker -> where its handler stands

vars == <<genai_client, backend_origin, artisans, products, artisan_seq,
          product_seq, files, uuid_seq, session, last, nreq, workers>>

(***************************************************************************)
(* Bound of the model: a run serves at most MaxRequests requests.          *)
(***************************************************************************)
MaxRequests == 4

\* a request served from start to end; the requests in flight stay where they are
Served == nreq < MaxRequests /\ nreq' = nreq + 1 /\ workers' = workers

(***************************************************************************)
(* Optional parameters: Form(None) / File(None).                           *)
(***************************************************************************)
None == {}
Some(v) == {v}
Get(x) == CHOOSE v \in x : TRUE
OrDefault(x, d) == IF x = None THEN d ELSE Get(x)

(***************************************************************************)
(* JSON values that are not strings, as the external service may put them  *)
(* under a key of its answer.                                              *)
(***************************************************************************)
JsonObject == "json:object"
JsonNull == "json:null"
IsString(v) == v \notin {JsonObject, JsonNull}
\* A Text column binds a string or NULL; a dict is no bindable parameter.
Bindable(v) == v # JsonObject

(***************************************************************************)
(* utils.translate_and_enrich.  `resp` is what the one call of             *)
(* generate_content does:                                                  *)
(*   raise       the call raises (transport error, timeout)                *)
(*   notext      resp.text is None or empty                                *)
(*   noblock     the text holds no {...} block                             *)
(*   unparsable  the block is not JSON and neither is the whole text       *)
(*   nonobject   the block is not JSON, the whole text is JSON but no      *)
(*               object (a list of objects)                                *)
(*   object      the block parses; obj maps its keys to its values         *)
(* The result carries the prompts sent, one per request.                   *)
(***************************************************************************)
NoObj == [k \in {} |-> ""]
Obj(t, e) == [k \in {"translated", "enriched"} |-> IF k = "translated" THEN t ELSE e]
OnlyTranslated(t) == [k \in {"translated"} |-> t]
Outcome(kind, obj) == [kind |-> kind, obj |-> obj]

\* dict.get(key, default)
JGet(obj, key, default) == IF key \in DOMAIN obj THEN obj[key] ELSE default

Identity(text, sent) == [translated |-> text, enriched |-> text, sent |-> sent]

translate_and_enrich_retrying(text, from_lang, to_lang, client, resp) ==
    IF text = "" THEN [translated |-> "", enriched |-> "", sent |-> <<>>]
    ELSE IF ~client THEN Identity(text, <<>>)
    ELSE LET prompt == [from_lang |-> from_lang, to_lang |-> to_lang, text |-> text]
         IN  IF resp.kind = "object"
             THEN [translated |-> JGet(resp.obj, "translated", text),
                   enriched |-> JGet(resp.obj, "enriched", text),
                   sent |-> <<prompt>>]
             ELSE Identity(text, <<prompt, prompt>>)

translate_and_enrich_blank(text, from_lang, to_lang, client, resp) ==
    IF text = "" \/ ~client THEN [translated |-> "", enriched |-> "", sent |-> <<>>]
    ELSE LET prompt == [from_lang |-> from_lang, to_lang |-> to_lang, text |-> text]
         IN  IF resp.kind = "object"
             THEN [translated |-> JGet(resp.obj, "translated", text),
                   enriched |-> JGet(resp.obj, "enriched", text),
                   sent |-> <<prompt>>]
             ELSE Identity(text, <<prompt>>)

translate_and_enrich(text, from_lang, to_lang, client, resp) ==
    IF text = "" THEN [translated |-> "", enriched |-> "", sent |-> <<>>]
    ELSE IF ~client THEN Identity(text, <<>>)
    ELSE LET prompt == [from_lang |-> from_lang, to_lang |-> to_lang, text |-> text]
             sent == <<prompt>>
         IN  IF resp.kind = "raise" THEN Identity(text, sent)
             ELSE LET has_block == resp.kind \in {"unparsable", "nonobject", "object"}
                  IN  IF has_block
                      THEN IF resp.kind = "object"
                           THEN [translated |-> JGet(resp.obj, "translated", text),
                                 enriched |-> JGet(resp.obj, "enriched", text),
                                 sent |-> sent]
                           \* json.loads(txt) fails, or gives a value without .get
                           ELSE Identity(text, sent)
                      ELSE Identity(text, sent)

(***************************************************************************)
(* app.get_db and its use, db = next(get_db()).  The generator is dropped  *)
(* as soon as next() returns and is never resumed; its finally clause      *)
(* (db.close()) runs when the runtime finalizes the generator:             *)
(*   refcount  at once, before the handler's first query (CPython)         *)
(*   deferred  at a later collection, after the handler has returned       *)
(* A closed Session begins a new transaction on its next use.              *)
(***************************************************************************)
get_db(fin) == IF fin = "refcount" THEN <<"open", "close">> ELSE <<"open">>
UseSession(log) == Append(log, "use")
NoSession == <<>>

(***************************************************************************)
(* The most recent request (its handler, the id it names, the optional     *)
(* fields it carried) and its response.                                    *)
(***************************************************************************)
Response(op, id, status, body, calls) ==
    [op |-> op, id |-> id, status |-> status, body |-> body, calls |-> calls,
     supplied |-> {}, asset |-> <<>>]
\* the optional form fields a request carried
Supplied(fields) == {k \in DOMAIN fields : fields[k] # None}
Supplying(response, fields) == [response EXCEPT !.supplied = Supplied(fields)]
\* the call of save_image_and_enhance a request made: how the Pillow pass ended,
\* the name under which the file was stored and the bytes that were uploaded
Storing(response, norm, name, data) ==
    [response EXCEPT !.asset = <<[norm |-> norm, name |-> name, data |-> data]>>]
\* one call of translate_and_enrich: its text, what the service did, its result
EnrichCall(text, resp, r) ==
    [text |-> text, outcome |-> IF r.sent = <<>> THEN "none" ELSE resp.kind,
     translated |-> r.translated, enriched |-> r.enriched, sent |-> r.sent]
NoBody == [detail |-> "none"]
NotFound(what) == [detail |-> what]

(***************************************************************************)
(* POST /register_artisan.  name and location are required form fields     *)
(* (Form(...)): without them the framework answers 422 before the handler  *)
(* body runs.                                                              *)
(***************************************************************************)
ArtisanRow(name, location, language, contact_number, bio, r) ==
    [name |-> name, location |-> location, language |-> language,
     contact_number |-> contact_number, bio_original |-> bio,
     bio_translated |-> r.translated, bio_enriched |-> r.enriched]

RegisterArtisan(name, location, language, bio, contact_number, resp, fin) ==
    /\ Served
    /\ LET form == [name |-> name, location |-> location, language |-> language,
                    bio |-> bio, contact_number |-> contact_number]
       IN  IF name = None \/ location = None
           THEN /\ last' = Supplying(Response("register_artisan", 0, 422, NoBody, <<>>),
                                     form)
                /\ session' = NoSession
                /\ UNCHANGED <<artisans, artisan_seq>>
           ELSE LET lang == OrDefault(language, "English")
                    b == OrDefault(bio, "")
                    r == translate_and_enrich(b, lang, "English", genai_client, resp)
                    row == ArtisanRow(Get(name), Get(location), lang,
                                      OrDefault(contact_number, ""), b, r)
                    id == artisan_seq + 1
                    calls == <<EnrichCall(b, resp, r)>>
                IN  /\ session' = UseSession(get_db(fin))
                    /\ IF Bindable(row.bio_translated) /\ Bindable(row.bio_enriched)
                       THEN /\ artisans' = artisans @@ (id :> row)
                            /\ artisan_seq' = id
                            /\ last' = Supplying(Response("register_artisan", 0, 200,
                                                     [id |-> id, name |-> row.name],
                                                     calls), form)
                       ELSE \* db.commit() raises: the row is not written
                            /\ UNCHANGED <<artisans, artisan_seq>>
                            /\ last' = Supplying(Response("register_artisan", 0, 500,
                                                          NoBody, calls), form)
    /\ UNCHANGED <<genai_client, backend_origin, products, product_seq, files, uuid_seq>>

(***************************************************************************)
(* absolute_image_url and GET /artisan/{artisan_id}.                       *)
(* A path is a sequence of components; Path(p).name is the last one.       *)
(***************************************************************************)
PathName(path) == IF path = <<>> THEN "" ELSE path[Len(path)]
PathParent(path) == IF path = <<>> THEN <<>> ELSE SubSeq(path, 1, Len(path) - 1)

absolute_image_url(origin, filename) ==
    IF origin # "" THEN <<origin, "static", filename>> ELSE <<"static", filename>>

ProductsOf(artisan_id) == {p \in DOMAIN products : products[p].artisan_id = artisan_id}

get_artisan_body(artisan_id) ==
    LET a == artisans[artisan_id]
    IN  [id |-> artisan_id, name |-> a.name, location |-> a.location,
         language |-> a.language, contact_number |-> a.contact_number,
         bio_original |-> a.bio_original, bio_translated |-> a.bio_translated,
         bio_enriched |-> a.bio_enriched,
         products |-> {[id |-> p, name |-> products[p].name,
                        description |-> products[p].description,
                        price |-> products[p].price,
                        image_url |-> absolute_image_url(backend_origin,
                                          PathName(products[p].image_path))]
                       : p \in ProductsOf(artisan_id)}]

GetArtisan(artisan_id, fin) ==
    /\ Served
    /\ session' = UseSession(get_db(fin))
    /\ IF artisan_id \notin DOMAIN artisans
       THEN last' = Response("get_artisan", artisan_id, 404,
                             NotFound("Artisan not found"), <<>>)
       ELSE last' = Response("get_artisan", artisan_id, 200,
                             get_artisan_body(artisan_id), <<>>)
    /\ UNCHANGED <<genai_client, backend_origin, artisans, products, artisan_seq,
                   product_seq, files, uuid_seq>>

(***************************************************************************)
(* PUT /artisan/{artisan_id}: the fields are applied in the handler's      *)
(* order; the bio is enriched with the language as it stands then.         *)
(***************************************************************************)
update_artisan_row_all(a, name, location, language, bio, contact_number, client, resp) ==
    LET lang == OrDefault(language, "English")
        b == OrDefault(bio, "")
        r == translate_and_enrich(b, lang, "English", client, resp)
    IN  [row |-> ArtisanRow(OrDefault(name, a.name), OrDefault(location, a.location),
                            lang, OrDefault(contact_number, ""), b, r),
         calls |-> <<EnrichCall(b, resp, r)>>]

update_artisan_row_stale(a, name, location, language, bio, contact_number, client, resp) ==
    LET a1 == IF name # None THEN [a EXCEPT !.name = Get(name)] ELSE a
        a2 == IF location # None THEN [a1 EXCEPT !.location = Get(location)] ELSE a1
        a3 == IF language # None THEN [a2 EXCEPT !.language = Get(language)] ELSE a2
        r == translate_and_enrich(OrDefault(bio, ""),
                                  IF a.language # "" THEN a.language ELSE "auto",
                                  "English", client, resp)
        a4 == IF bio # None
              THEN [a3 EXCEPT !.bio_original = Get(bio),
                              !.bio_translated = r.translated,
                              !.bio_enriched = r.enriched]
              ELSE a3
        a5 == IF contact_number # None
              THEN [a4 EXCEPT !.contact_number = Get(contact_number)]
              ELSE a4
    IN  [row |-> a5,
         calls |-> IF bio # None THEN <<EnrichCall(Get(bio), resp, r)>> ELSE <<>>]

update_artisan_row(a, name, location, language, bio, contact_number, client, resp) ==
    LET a1 == IF name # None THEN [a EXCEPT !.name = Get(name)] ELSE a
        a2 == IF location # None THEN [a1 EXCEPT !.location = Get(location)] ELSE a1
        a3 == IF language # None THEN [a2 EXCEPT !.language = Get(language)] ELSE a2
        r == translate_and_enrich(OrDefault(bio, ""),
                                  IF a3.language # "" THEN a3.language ELSE "auto",
                                  "English", client, resp)
        a4 == IF bio # None
              THEN [a3 EXCEPT !.bio_original = Get(bio),
                              !.bio_translated = r.translated,
                              !.bio_enriched = r.enriched]
              ELSE a3
        a5 == IF contact_number # None
              THEN [a4 EXCEPT !.contact_number = Get(contact_number)]
              ELSE a4
    IN  [row |-> a5,
         calls |-> IF bio # None THEN <<EnrichCall(Get(bio), resp, r)>> ELSE <<>>]

UpdateArtisan(artisan_id, name, location, language, bio, contact_number, resp, fin) ==
    /\ Served
    /\ session' = UseSession(get_db(fin))
    /\ LET form == [name |-> name, location |-> location, language |-> language,
                    bio |-> bio, contact_number |-> contact_number]
       IN  IF artisan_id \notin DOMAIN artisans
           THEN /\ last' = Supplying(Response("update_artisan", artisan_id, 404,
                                              NotFound("Artisan not found"), <<>>), form)
                /\ UNCHANGED artisans
           ELSE LET u == update_artisan_row(artisans[artisan_id], name, location,
                                            language, bio, contact_number,
                                            genai_client, resp)
                IN  IF Bindable(u.row.bio_translated) /\ Bindable(u.row.bio_enriched)
                    THEN /\ artisans' = [artisans EXCEPT ![artisan_id] = u.row]
                         /\ last' = Supplying(Response("update_artisan", artisan_id, 200,
                                                  [status |-> "ok", id |-> artisan_id],
                                                  u.calls), form)
                    ELSE \* db.commit() raises: the row keeps its stored values
                         /\ UNCHANGED artisans
                         /\ last' = Supplying(Response("update_artisan", artisan_id, 500,
                                                       NoBody, u.calls), form)
    /\ UNCHANGED <<genai_client, backend_origin, products, artisan_seq, product_seq,
                   files, uuid_seq>>

(***************************************************************************)
(* utils.save_image_and_enhance (the second definition of the module,      *)
(* which is the one app.py imports).  An upload is its filename hint, as   *)
(* stem and suffix, and its bytes.  `norm` is how the Pillow pass ends:    *)
(*   write_fails    open(out_path, "wb") / f.write raises                  *)
(*   open_fails     Image.open raises (no image)                           *)
(*   transform_fails  a transform raises (truncated or unsupported image)  *)
(*   save_fails     img.save raises before it opens out_path for writing   *)
(*   save_truncates img.save raises after it opened out_path for writing   *)
(*   ok             the image is re-saved                                  *)
(* Content is the uploaded bytes and the form in which the file holds them.*)
(***************************************************************************)
DATA_DIR == <<"/", "repo", "data", "images">>
MEDIA_DIR == <<"media">>

Upload(stem, suffix, data) == [stem |-> stem, suffix |-> suffix, data |-> data]
Content(data, form) == [data |-> data, form |-> form]

uuid_hex(n) == "uuid" \o ToString(n)
_uuid_name_fixed(n, suffix) == "upload" \o suffix
_uuid_name(n, suffix) == uuid_hex(n) \o suffix

WriteFile(fs, path, content) == [q \in DOMAIN fs \cup {path} |->
                                    IF q = path THEN content ELSE fs[q]]
\* Path.replace: rename, overwriting the target
MoveFile(fs, from, to) == [q \in (DOMAIN fs \ {from}) \cup {to} |->
                              IF q = to THEN fs[from] ELSE fs[q]]

save_image_and_enhance_swallowing(fs, upload_file, n, norm) ==
    LET ext == IF upload_file.suffix # "" THEN upload_file.suffix ELSE ".jpg"
        out_path == Append(DATA_DIR, _uuid_name(n, ext))
    IN  [ok |-> TRUE, path |-> out_path,
         fs |-> WriteFile(fs, out_path,
                          Content(upload_file.data,
                                  IF norm = "ok" THEN "normalized"
                                  ELSE IF norm \in {"write_fails", "save_truncates"}
                                       THEN "truncated" ELSE "raw"))]

save_image_and_enhance(fs, upload_file, n, norm) ==
    LET ext == IF upload_file.suffix # "" THEN upload_file.suffix ELSE ".jpg"
        filename == _uuid_name(n, ext)
        out_path == Append(DATA_DIR, filename)
        raw == WriteFile(fs, out_path, Content(upload_file.data, "raw"))
    IN  IF norm = "write_fails" THEN [ok |-> FALSE, path |-> out_path, fs |-> fs]
        ELSE IF norm \in {"open_fails", "transform_fails", "save_fails"}
             THEN [ok |-> TRUE, path |-> out_path, fs |-> raw]
        ELSE IF norm = "save_truncates"
             THEN [ok |-> TRUE, path |-> out_path,
                   fs |-> WriteFile(fs, out_path, Content(upload_file.data, "truncated"))]
        ELSE [ok |-> TRUE, path |-> out_path,
              fs |-> WriteFile(fs, out_path, Content(upload_file.data, "normalized"))]

StoreWhereSaved(fs, saved_path) == [path |-> saved_path, fs |-> fs]

\* app.py: move the saved file under MEDIA_DIR when it was written elsewhere
StoreUnderMedia(fs, saved_path) ==
    IF PathParent(saved_path) # MEDIA_DIR
    THEN LET target == Append(MEDIA_DIR, PathName(saved_path))
         IN  [path |-> target, fs |-> MoveFile(fs, saved_path, target)]
    ELSE [path |-> saved_path, fs |-> fs]

(***************************************************************************)
(* POST /upload_product                                                    *)
(***************************************************************************)
ProductRow_with_directory(artisan_id, name, description, price, image_path) ==
    [artisan_id |-> artisan_id, name |-> name, description |-> description,
     price |-> price, image_path |-> MEDIA_DIR \o image_path]

ProductRow(artisan_id, name, description, price, image_path) ==
    [artisan_id |-> artisan_id, name |-> name, description |-> description,
     price |-> price, image_path |-> image_path]

\* scripts/fix_paths.py: every stored image_path is cut down to its last component
fix_paths(rows) ==
    [p \in DOMAIN rows |-> [rows[p] EXCEPT !.image_path = <<PathName(@)>>]]

artisan_exists_unchecked(artisan_id) == TRUE
artisan_exists(artisan_id) == artisan_id \in DOMAIN artisans

UploadProduct(artisan_id, product_name, description, price, file, norm, fin) ==
    /\ Served
    /\ LET saved == save_image_and_enhance(files, file, uuid_seq + 1, norm)
           stored == StoreUnderMedia(saved.fs, saved.path)
           name == PathName(stored.path)
           id == product_seq + 1
       IN  /\ uuid_seq' = uuid_seq + 1
           /\ IF ~saved.ok
              THEN \* the write raises: the request ends in a 500
                   /\ last' = Storing(Response("upload_product", artisan_id, 500, NoBody,
                                               <<>>), norm, PathName(saved.path),
                                      file.data)
                   /\ session' = NoSession
                   /\ UNCHANGED <<files, products, product_seq>>
              ELSE /\ files' = stored.fs
                   /\ session' = UseSession(get_db(fin))
                   /\ IF ~artisan_exists(artisan_id)
                      THEN /\ last' = Storing(Response("upload_product", artisan_id, 404,
                                                  NotFound("Artisan not found"), <<>>),
                                              norm, name, file.data)
                           /\ UNCHANGED <<products, product_seq>>
                      ELSE /\ products' = products @@
                                  (id :> ProductRow(artisan_id, product_name,
                                                    OrDefault(description, ""),
                                                    OrDefault(price, ""), <<name>>))
                           /\ product_seq' = id
                           /\ last' = Storing(Response("upload_product", artisan_id, 200,
                                                  [id |-> id,
                                                   image |-> absolute_image_url(
                                                                backend_origin, name)],
                                                  <<>>), norm, name, file.data)
    /\ UNCHANGED <<genai_client, backend_origin, artisans, artisan_seq>>

(***************************************************************************)
(* PUT /product/{product_id}                                               *)
(***************************************************************************)
update_product_row(p, product_name, description, price, new_name) ==
    LET p1 == IF product_name # None THEN [p EXCEPT !.name = Get(product_name)] ELSE p
        p2 == IF description # None THEN [p1 EXCEPT !.description = Get(description)] ELSE p1
        p3 == IF price # None THEN [p2 EXCEPT !.price = Get(price)] ELSE p2
    IN  IF new_name # None THEN [p3 EXCEPT !.image_path = <<Get(new_name)>>] ELSE p3

UpdateProduct(product_id, product_name, description, price, file, norm, fin) ==
    /\ Served
    /\ session' = UseSession(get_db(fin))
    /\ LET form == [product_name |-> product_name, description |-> description,
                    price |-> price, file |-> file]
           ok == Supplying(Response("update_product", product_id, 200,
                                    [status |-> "ok", id |-> product_id], <<>>), form)
       IN  IF product_id \notin DOMAIN products
           THEN /\ last' = Supplying(Response("update_product", product_id, 404,
                                              NotFound("Product not found"), <<>>), form)
                /\ UNCHANGED <<products, files, uuid_seq>>
           ELSE IF file = None
           THEN /\ products' = [products EXCEPT ![product_id] =
                                   update_product_row(@, product_name, description,
                                                      price, None)]
                /\ last' = ok
                /\ UNCHANGED <<files, uuid_seq>>
           ELSE LET saved == save_image_and_enhance(files, Get(file), uuid_seq + 1, norm)
                    stored == StoreUnderMedia(saved.fs, saved.path)
                    name == PathName(stored.path)
                IN  /\ uuid_seq' = uuid_seq + 1
                    /\ IF ~saved.ok
                       THEN \* the write raises: nothing is committed
                            /\ last' = Storing(Supplying(Response("update_product",
                                                   product_id, 500, NoBody, <<>>), form),
                                               norm, PathName(saved.path),
                                               Get(file).data)
                            /\ UNCHANGED <<products, files>>
                       ELSE /\ files' = stored.fs
                            /\ products' = [products EXCEPT ![product_id] =
                                               update_product_row(@, product_name,
                                                   description, price, Some(name))]
                            /\ last' = Storing(ok, norm, name, Get(file).data)
    /\ UNCHANGED <<genai_client, backend_origin, artisans, artisan_seq, product_seq>>

(***************************************************************************)
(* DELETE /product/{product_id}                                            *)
(***************************************************************************)
delete_row_keep(rows, id) == rows
delete_row_all(rows, id) == [r \in {} |-> rows[r]]
delete_row(rows, id) == [r \in DOMAIN rows \ {id} |-> rows[r]]

DeleteProduct(product_id, fin) ==
    /\ Served
    /\ session' = UseSession(get_db(fin))
    /\ IF product_id \notin DOMAIN products
       THEN /\ last' = Response("delete_product", product_id, 404,
                                NotFound("Product not found"), <<>>)
            /\ UNCHANGED products
       ELSE /\ products' = delete_row(products, product_id)
            /\ last' = Response("delete_product", product_id, 200,
                                [status |-> "deleted", id |-> product_id], <<>>)
    /\ UNCHANGED <<genai_client, backend_origin, artisans, artisan_seq, product_seq,
                   files, uuid_seq>>

(***************************************************************************)
(* GET /search.  Column.ilike(f"%{q}%") hands q to the store's LIKE, in    *)
(* which % matches any run of characters and _ any one character, letters  *)
(* compared without case.                                                  *)
(***************************************************************************)
UpperCase == <<"A", "B", "C", "D", "E", "F", "G", "H", "I", "J", "K", "L", "M",
               "N", "O", "P", "Q", "R", "S", "T", "U", "V", "W", "X", "Y", "Z">>
LowerCase == <<"a", "b", "c", "d", "e", "f", "g", "h", "i", "j", "k", "l", "m",
               "n", "o", "p", "q", "r", "s", "t", "u", "v", "w", "x", "y", "z">>
Lower(c) == IF \E i \in DOMAIN UpperCase : UpperCase[i] = c
            THEN LowerCase[CHOOSE i \in DOMAIN UpperCase : UpperCase[i] = c]
            ELSE c

RECURSIVE Like(_, _)
Like(pattern, str) ==
    IF pattern = <<>> THEN str = <<>>
    ELSE IF Head(pattern) = "%"
         THEN Like(Tail(pattern), str) \/ (str # <<>> /\ Like(pattern, Tail(str)))
    ELSE IF str = <<>> THEN FALSE
    ELSE IF Head(pattern) = "_" THEN Like(Tail(pattern), Tail(str))
    ELSE Lower(Head(pattern)) = Lower(Head(str)) /\ Like(Tail(pattern), Tail(str))

ilike(column, q) == Like(<<"%">> \o q \o <<"%">>, column)

SearchMatches(q, location) ==
    {p \in DOMAIN products :
        /\ products[p].artisan_id \in DOMAIN artisans
        /\ ilike(products[p].name, q)
        /\ location # <<>> => ilike(artisans[products[p].artisan_id].location, location)}

SearchItem(p) ==
    LET a == artisans[products[p].artisan_id]
    IN  [product_id |-> p, name |-> products[p].name, price |-> products[p].price,
         image_url |-> absolute_image_url(backend_origin, PathName(products[p].image_path)),
         artisan |-> [id |-> products[p].artisan_id, name |-> a.name,
                      location |-> a.location, contact_number |-> a.contact_number,
                      bio |-> a.bio_translated]]

Min(a, b) == IF a < b THEN a ELSE b

\* Query.limit(n).all(): how many of `count` matching rows are read.  The
\* handler hands n to the store unchecked, and what LIMIT does with a negative
\* n is the store's choice: SQLite reads every row, PostgreSQL and MySQL
\* refuse the statement.
RowsRead(n, count) ==
    IF n >= 0 THEN {[refused |-> FALSE, rows |-> Min(n, count)]}
    ELSE {[refused |-> FALSE, rows |-> count], [refused |-> TRUE, rows |-> 0]}

Search(q, location, limit, fin) ==
    /\ Served
    /\ session' = UseSession(get_db(fin))
    /\ \E read \in RowsRead(OrDefault(limit, 20), Cardinality(SearchMatches(q, location))) :
          IF read.refused
          THEN last' = Supplying(Response("search", 0, 500, NoBody, <<>>),
                                 [limit |-> limit])
          ELSE \E rows \in SUBSET SearchMatches(q, location) :
                  /\ Cardinality(rows) = read.rows
                  /\ last' = Supplying(Response("search", 0, 200,
                                           [q |-> q, location |-> location,
                                            limit |-> OrDefault(limit, 20),
                                            results |-> {SearchItem(p) : p \in rows}],
                                           <<>>), [limit |-> limit])
    /\ UNCHANGED <<genai_client, backend_origin, artisans, products, artisan_seq,
                   product_seq, files, uuid_seq>>

(***************************************************************************)
(* GET /find_artisan: each predicate that is not empty filters with ilike; *)
(* at most 50 rows are read.                                               *)
(***************************************************************************)
FindMatches(name, location) ==
    {a \in DOMAIN artisans :
        /\ name # <<>> => ilike(artisans[a].name, name)
        /\ location # <<>> => ilike(artisans[a].location, location)}

FindItem(a) ==
    [id |-> a, name |-> artisans[a].name, location |-> artisans[a].location,
     language |-> artisans[a].language]

FindArtisan(name, location, fin) ==
    /\ Served
    /\ session' = UseSession(get_db(fin))
    /\ \E rows \in SUBSET FindMatches(name, location) :
          /\ [refused |-> FALSE, rows |-> Cardinality(rows)]
                \in RowsRead(50, Cardinality(FindMatches(name, location)))
          /\ last' = Response("find_artisan", 0, 200,
                              [name |-> name, location |-> location,
                               results |-> {FindItem(a) : a \in rows}],
                              <<>>)
    /\ UNCHANGED <<genai_client, backend_origin, artisans, products, artisan_seq,
                   product_seq, files, uuid_seq>>

(***************************************************************************)
(* safe_fileresponse and GET /image/{product_id}.                          *)
(***************************************************************************)
safe_fileresponse_unchecked(fs, path) ==
    IF path \in DOMAIN fs
    THEN [status |-> 200, body |-> [file |-> path]]
    \* Starlette fails when it comes to stream a file that is not there
    ELSE [status |-> 500, body |-> NoBody]

safe_fileresponse(fs, path) ==
    IF path \notin DOMAIN fs
    THEN [status |-> 404, body |-> NotFound("Image file not found")]
    ELSE [status |-> 200, body |-> [file |-> path]]

GetImage(product_id, fin) ==
    /\ Served
    /\ session' = UseSession(get_db(fin))
    /\ IF product_id \notin DOMAIN products
       THEN last' = Response("get_image", product_id, 404,
                             NotFound("Product not found"), <<>>)
       ELSE LET path == Append(MEDIA_DIR, PathName(products[product_id].image_path))
                answer == safe_fileresponse(files, path)
            IN  last' = Response("get_image", product_id, answer.status, answer.body,
                                 <<>>)
    /\ UNCHANGED <<genai_client, backend_origin, artisans, products, artisan_seq,
                   product_seq, files, uuid_seq>>

(***************************************************************************)
(* MEDIA_DIR is a folder inside the container: a restart of the container  *)
(* starts from an empty folder, while the database keeps its rows.         *)
(***************************************************************************)
MediaLost ==
    /\ files # <<>>
    /\ files' = <<>>
    /\ UNCHANGED <<genai_client, backend_origin, artisans, products, artisan_seq,
                   product_seq, uuid_seq, session, last, nreq, workers>>

(***************************************************************************)
(* The wait inside translate_and_enrich.  register_artisan and             *)
(* update_artisan are plain functions: the worker that runs one stays in   *)
(* genai_client.models.generate_content(...) until that call returns or    *)
(* raises.  The client is built as genai.Client(api_key=...) and the call  *)
(* passes no timeout, so only the service or the transport ends the wait.  *)
(* A request that waits is `last` with status 0; its body is the form and  *)
(* whether the service is going to answer.                                 *)
(***************************************************************************)
InFlight == last.status = 0 /\ last.op \in {"register_artisan", "update_artisan"}

Waiting(op, id, form, service) ==
    Supplying(Response(op, id, 0, [form |-> form, service |-> service], <<>>), form)

\* the handler reaches generate_content: a client is configured and the bio
\* is not empty
AwaitService(op, id, form, service) ==
    /\ nreq < MaxRequests
    /\ ~InFlight
    /\ genai_client
    /\ OrDefault(form.bio, "") # ""
    /\ op = "register_artisan" => (form.name # None /\ form.location # None)
    /\ op = "update_artisan" => id \in DOMAIN artisans
    /\ last' = Waiting(op, id, form, service)
    /\ UNCHANGED <<genai_client, backend_origin, artisans, products, artisan_seq,
                   product_seq, files, uuid_seq, session, nreq, workers>>

\* generate_content returns or raises, and the handler runs to its end
ServiceReturns(resp) ==
    /\ InFlight
    /\ last.body.service = "answers"
    /\ LET form == last.body.form
       IN  IF last.op = "register_artisan"
           THEN RegisterArtisan(form.name, form.location, form.language, form.bio,
                                form.contact_number, resp, "refcount")
           ELSE UpdateArtisan(last.id, form.name, form.location, form.language,
                              form.bio, form.contact_number, resp, "refcount")

(***************************************************************************)
(* The runtime finalizes a generator that a handler left suspended: its    *)
(* finally clause closes the session.                                      *)
(***************************************************************************)
FinalizeGenerator ==
    /\ session # <<>>
    /\ "close" \notin {session[i] : i \in DOMAIN session}
    /\ session' = Append(session, "close")
    /\ UNCHANGED <<genai_client, backend_origin, artisans, products, artisan_seq,
                   product_seq, files, uuid_seq, last, nreq, workers>>

(***************************************************************************)
(* Requests that overlap.  Each request runs on a worker of its own with   *)
(* its own session (get_db builds one per call), so between the query that *)
(* loads a row and db.commit() another request can load or commit.  A      *)
(* handler is then two steps: it loads the row and assigns the supplied    *)
(* fields to its copy; it commits.  At commit the session writes the       *)
(* attributes whose value differs from the loaded one                      *)
(* (UPDATE ... SET <those> WHERE id = ?); an UPDATE that matches no row    *)
(* raises, and so does db.refresh of a row that is gone; a DELETE that     *)
(* matches no row only warns.                                              *)
(* A worker keeps the record of its request until it starts the next one;  *)
(* `raced` are the workers that had loaded the same row and not committed  *)
(* when this one committed.                                                *)
(***************************************************************************)
Workers == {1, 2}

Idle == [pc |-> "idle", op |-> "none", id |-> 0, form |-> <<>>, loaded |-> <<>>,
         row |-> <<>>, calls |-> <<>>, raced |-> {}]

Loaded(op, id, form, loaded, row, calls) ==
    [pc |-> "loaded", op |-> op, id |-> id, form |-> form, loaded |-> loaded,
     row |-> row, calls |-> calls, raced |-> {}]

Free(w) == workers[w].pc # "loaded"

\* the workers other than w that hold a copy of row id of the table of op
Racing(w, op, id) ==
    {v \in Workers \ {w} : /\ workers[v].pc = "loaded"
                           /\ workers[v].id = id
                           /\ (workers[v].op = "update_artisan") = (op = "update_artisan")}

Done(w, op, id) == [workers EXCEPT ![w] = [@ EXCEPT !.pc = "done",
                                                   !.raced = Racing(w, op, id)]]

\* the attributes the session writes at flush
Dirty(loaded, row) == {k \in DOMAIN row : row[k] # loaded[k]}
flush_update(stored, loaded, row) ==
    [k \in DOMAIN stored |-> IF k \in Dirty(loaded, row) THEN row[k] ELSE stored[k]]

\* update_artisan up to db.commit()
LoadArtisan(w, artisan_id, name, location, language, bio, contact_number, resp, fin) ==
    /\ Free(w)
    /\ nreq < MaxRequests
    /\ nreq' = nreq + 1
    /\ session' = UseSession(get_db(fin))
    /\ LET form == [name |-> name, location |-> location, language |-> language,
                    bio |-> bio, contact_number |-> contact_number]
       IN  IF artisan_id \notin DOMAIN artisans
           THEN /\ last' = Supplying(Response("update_artisan", artisan_id, 404,
                                              NotFound("Artisan not found"), <<>>), form)
                /\ workers' = [workers EXCEPT ![w] = Idle]
           ELSE LET u == update_artisan_row(artisans[artisan_id], name, location,
                                            language, bio, contact_number,
                                            genai_client, resp)
                IN  /\ workers' = [workers EXCEPT ![w] =
                                      Loaded("update_artisan", artisan_id, form,
                                             artisans[artisan_id], u.row, u.calls)]
                    /\ UNCHANGED last
    /\ UNCHANGED <<genai_client, backend_origin, artisans, products, artisan_seq,
                   product_seq, files, uuid_seq>>

\* update_artisan from db.commit() on
CommitArtisan(w) ==
    /\ workers[w].pc = "loaded"
    /\ workers[w].op = "update_artisan"
    /\ LET r == workers[w]
       IN  /\ workers' = Done(w, r.op, r.id)
           /\ IF Bindable(r.row.bio_translated) /\ Bindable(r.row.bio_enriched)
              THEN /\ artisans' = [artisans EXCEPT ![r.id] =
                                      flush_update(@, r.loaded, r.row)]
                   /\ last' = Supplying(Response("update_artisan", r.id, 200,
                                                 [status |-> "ok", id |-> r.id],
                                                 r.calls), r.form)
              ELSE /\ UNCHANGED artisans
                   /\ last' = Supplying(Response("update_artisan", r.id, 500,
                                                 NoBody, r.calls), r.form)
    /\ UNCHANGED <<genai_client, backend_origin, products, artisan_seq, product_seq,
                   files, uuid_seq, session, nreq>>

\* update_product up to db.commit(); a replacement image is stored here
LoadProduct(w, product_id, product_name, description, price, file, norm, fin) ==
    /\ Free(w)
    /\ nreq < MaxRequests
    /\ nreq' = nreq + 1
    /\ session' = UseSession(get_db(fin))
    /\ LET form == [product_name |-> product_name, description |-> description,
                    price |-> price, file |-> file]
       IN  IF product_id \notin DOMAIN products
           THEN /\ last' = Supplying(Response("update_product", product_id, 404,
                                              NotFound("Product not found"), <<>>), form)
                /\ workers' = [workers EXCEPT ![w] = Idle]
                /\ UNCHANGED <<files, uuid_seq>>
           ELSE IF file = None
           THEN /\ workers' = [workers EXCEPT ![w] =
                                  Loaded("update_product", product_id, form,
                                         products[product_id],
                                         update_product_row(products[product_id],
                                             product_name, description, price, None),
                                         <<>>)]
                /\ UNCHANGED <<last, files, uuid_seq>>
           ELSE LET saved == save_image_and_enhance(files, Get(file), uuid_seq + 1, norm)
                    stored == StoreUnderMedia(saved.fs, saved.path)
                    name == PathName(stored.path)
                IN  /\ uuid_seq' = uuid_seq + 1
                    /\ IF ~saved.ok
                       THEN /\ last' = Storing(Supplying(Response("update_product",
                                                   product_id, 500, NoBody, <<>>), form),
                                               norm, PathName(saved.path),
                                               Get(file).data)
                            /\ workers' = [workers EXCEPT ![w] = Idle]
                            /\ UNCHANGED files
                       ELSE /\ files' = stored.fs
                            /\ workers' = [workers EXCEPT ![w] =
                                   Loaded("update_product", product_id, form,
                                          products[product_id],
                                          update_product_row(products[product_id],
                                              product_name, description, price,
                                              Some(name)),
                                          <<>>)]
                            /\ UNCHANGED last
    /\ UNCHANGED <<genai_client, backend_origin, artisans, products, artisan_seq,
                   product_seq>>

\* update_product from db.commit() on.  When the row is gone, the UPDATE
\* matches no row (StaleDataError) or, with nothing to write, db.refresh(p)
\* finds none (InvalidRequestError): the handler catches neither.
CommitProduct(w) ==
    /\ workers[w].pc = "loaded"
    /\ workers[w].op = "update_product"
    /\ LET r == workers[w]
       IN  /\ workers' = Done(w, r.op, r.id)
           /\ IF r.id \in DOMAIN products
              THEN /\ products' = [products EXCEPT ![r.id] =
                                      flush_update(@, r.loaded, r.row)]
                   /\ last' = Supplying(Response("update_product", r.id, 200,
                                                 [status |-> "ok", id |-> r.id],
                                                 <<>>), r.form)
              ELSE /\ UNCHANGED products
                   /\ last' = Supplying(Response("update_product", r.id, 500,
                                                 NoBody, <<>>), r.form)
    /\ UNCHANGED <<genai_client, backend_origin, artisans, artisan_seq, product_seq,
                   files, uuid_seq, session, nreq>>

\* delete_product up to db.delete(p)
LoadForDelete(w, product_id, fin) ==
    /\ Free(w)
    /\ nreq < MaxRequests
    /\ nreq' = nreq + 1
    /\ session' = UseSession(get_db(fin))
    /\ IF product_id \notin DOMAIN products
       THEN /\ last' = Response("delete_product", product_id, 404,
                                NotFound("Product not found"), <<>>)
            /\ workers' = [workers EXCEPT ![w] = Idle]
       ELSE /\ workers' = [workers EXCEPT ![w] =
                              Loaded("delete_product", product_id, <<>>,
                                     products[product_id], products[product_id],
                                     <<>>)]
            /\ UNCHANGED last
    /\ UNCHANGED <<genai_client, backend_origin, artisans, products, artisan_seq,
                   product_seq, files, uuid_seq>>

\* delete_product from db.commit() on
CommitDelete(w) ==
    /\ workers[w].pc = "loaded"
    /\ workers[w].op = "delete_product"
    /\ LET r == workers[w]
       IN  /\ workers' = Done(w, r.op, r.id)
           /\ products' = delete_row(products, r.id)
           /\ last' = Response("delete_product", r.id, 200,
                               [status |-> "deleted", id |-> r.id], <<>>)
    /\ UNCHANGED <<genai_client, backend_origin, artisans, artisan_seq, product_seq,
                   files, uuid_seq, session, nreq>>

(***************************************************************************)
(* frontend/app.py: the contact number rule and the two flows that send a  *)
(* contact number.  What st.text_input returns is the text as typed, a     *)
(* sequence of characters.  A button handler that sent its request goes on *)
(* to read the profile back (api_get) when the answer was ok.              *)
(***************************************************************************)
Digits == {"0", "1", "2", "3", "4", "5", "6", "7", "8", "9"}
Whitespace == {" "}

RECURSIVE lstrip(_)
lstrip(s) == IF s # <<>> /\ Head(s) \in Whitespace THEN lstrip(Tail(s)) ELSE s
RECURSIVE rstrip(_)
rstrip(s) == IF s # <<>> /\ s[Len(s)] \in Whitespace
             THEN rstrip(SubSeq(s, 1, Len(s) - 1)) ELSE s
strip(s) == rstrip(lstrip(s))
isdigit(s) == s # <<>> /\ \A i \in DOMAIN s : s[i] \in Digits

is_valid_phone(s) ==
    IF s = <<>> THEN FALSE
    ELSE LET s2 == strip(s) IN isdigit(s2) /\ Len(s2) = 10

\* the contact number a flow puts in its payload
payload_contact(contact_number) == contact_number

Unknown == <<"U", "n", "k", "n", "o", "w", "n">>

\* st.error(...): the handler ends without a request
UiRefuses(flow) ==
    /\ last' = Response(flow, 0, 0, [detail |-> "contact number refused"], <<>>)
    /\ UNCHANGED <<genai_client, backend_origin, artisans, products, artisan_seq,
                   product_seq, files, uuid_seq, session, nreq, workers>>

\* a flow's request was answered ok and its handler has yet to read the profile
RefreshDue == last.op \in {"register_artisan", "update_artisan"} /\ last.status = 200

\* "Confirm & Register", shown once a story was generated
ConfirmRegister(name, location, lang, story, contact_number, resp, fin) ==
    /\ ~RefreshDue
    /\ story # ""
    /\ IF contact_number = <<>> \/ ~is_valid_phone(contact_number)
       THEN UiRefuses("register_flow")
       ELSE RegisterArtisan(Some(IF name = <<>> THEN Unknown ELSE name),
                            Some(location), Some(lang), Some(story),
                            Some(payload_contact(contact_number)), resp, fin)

\* "Save profile" of the artisan the UI session holds
SaveProfile(aid, e_name, e_location, e_lang, e_bio, e_contact, resp, fin) ==
    /\ ~RefreshDue
    /\ aid \in DOMAIN artisans
    /\ IF e_contact = <<>> \/ ~is_valid_phone(e_contact)
       THEN UiRefuses("edit_flow")
       ELSE UpdateArtisan(aid, Some(e_name), Some(e_location), Some(e_lang),
                          Some(e_bio), Some(payload_contact(e_contact)), resp, fin)

\* api_get(f"/artisan/{id}") after an ok answer
RefreshProfile(fin) ==
    /\ RefreshDue
    /\ GetArtisan(IF last.op = "register_artisan" THEN last.body.id ELSE last.id, fin)

(***************************************************************************)
(* The state after import of backend/app.py on an empty database.          *)
(***************************************************************************)
InitWith(clients, origins) ==
    /\ genai_client \in clients
    /\ backend_origin \in origins
    /\ artisans = <<>>
    /\ products = <<>>
    /\ artisan_seq = 0
    /\ product_seq = 0
    /\ files = <<>>
    /\ uuid_seq = 0
    /\ session = NoSession
    /\ last = Response("none", 0, 0, NoBody, <<>>)
    /\ nreq = 0
    /\ workers = [w \in Workers |-> Idle]

(***************************************************************************)
(* Request parameters the specifications draw from.                        *)
(***************************************************************************)
Fins == {"refcount", "deferred"}
\* the ids in use and one that was never given
ArtisanIds == 1..(artisan_seq + 1)
ProductIds == 1..(product_seq + 1)

GenaiFailures == {Outcome("raise", NoObj), Outcome("notext", NoObj),
                  Outcome("noblock", NoObj), Outcome("unparsable", NoObj),
                  Outcome("nonobject", NoObj)}
GenaiObjects == {Outcome("object", Obj("T", "E")),
                 Outcome("object", OnlyTranslated("T")),
                 Outcome("object", Obj(JsonObject, "E")),
                 Outcome("object", Obj("T", JsonNull))}
GenaiOutcomes == GenaiFailures \cup GenaiObjects

NameA == <<"A", "n", "u">>
NameB == <<"B", "o">>
Pune == <<"P", "u", "n", "e">>
Goa == <<"G", "o", "a">>

(***************************************************************************)
(* SpecEnrich: registration and profile update under every answer of the   *)
(* external service, with and without a configured client.                 *)
(***************************************************************************)
InitEnrich == InitWith(BOOLEAN, {""})

\* without a client no request is made, and what the service would do is moot
Answers == IF genai_client THEN GenaiOutcomes ELSE {Outcome("raise", NoObj)}

NextEnrich ==
    \/ \E bio \in {None, Some("b1")}, resp \in Answers :
          RegisterArtisan(Some(NameA), Some(Pune), None, bio, None, resp, "refcount")
    \/ \E id \in ArtisanIds, bio \in {None, Some(""), Some("b2")}, resp \in Answers :
          UpdateArtisan(id, None, None, None, bio, None, resp, "refcount")
    \/ \E id \in ArtisanIds : GetArtisan(id, "refcount")

SpecEnrich == InitEnrich /\ [][NextEnrich]_vars

(***************************************************************************)
(* SpecFrame: profile updates carrying every subset of the five fields,    *)
(* on a catalog that holds other artisans and products.                    *)
(***************************************************************************)
Photo == Upload("pot", ".png", "bytes1")
Pot == <<"P", "o", "t">>

InitFrame == InitWith({TRUE}, {""})

\* what the service answers matters only to a request that carries a bio
AnswersTo(bio) == IF bio = None THEN {Outcome("raise", NoObj)}
                  ELSE {Outcome("raise", NoObj), Outcome("object", Obj("T", "E"))}

NextFrame ==
    \/ RegisterArtisan(Some(NameA), Some(Pune), Some("Hindi"), Some("b1"), Some("c1"),
                       Outcome("object", Obj("T", "E")), "refcount")
    \/ \E id \in DOMAIN artisans :
          UploadProduct(id, Pot, None, None, Photo, "ok", "refcount")
    \/ \E id \in DOMAIN artisans, name \in {None, Some(NameB)},
          location \in {None, Some(Goa)}, language \in {None, Some("English")},
          bio \in {None, Some("b2")}, contact_number \in {None, Some("c2")} :
          \E resp \in AnswersTo(bio) :
              UpdateArtisan(id, name, location, language, bio, contact_number, resp,
                            "refcount")

SpecFrame == InitFrame /\ [][NextFrame]_vars

(***************************************************************************)
(* SpecCatalog: the product life cycle (upload, update with or without a   *)
(* replacement image, delete) and the profile that lists the products,     *)
(* with and without a configured public origin.  Asset writes succeed.     *)
(***************************************************************************)
Notes == Upload("notes", "", "bytes2")
Bowl == <<"B", "o", "w", "l">>

InitCatalog == InitWith({FALSE}, {"", "https://backend.example"})

NextCatalog ==
    \/ RegisterArtisan(Some(NameA), Some(Pune), None, None, None,
                       Outcome("raise", NoObj), "refcount")
    \/ \E id \in ArtisanIds, norm \in {"ok", "open_fails"} :
          UploadProduct(id, Pot, None, Some("250"),
                        IF norm = "ok" THEN Photo ELSE Notes, norm, "refcount")
    \/ \E id \in ProductIds, product_name \in {None, Some(Bowl)},
          file \in {None, Some(Photo)} :
          UpdateProduct(id, product_name, None, None, file, "ok", "refcount")
    \/ \E id \in ProductIds : DeleteProduct(id, "refcount")
    \/ \E id \in ArtisanIds : GetArtisan(id, "refcount")

SpecCatalog == InitCatalog /\ [][NextCatalog]_vars

(***************************************************************************)
(* SpecSearch: product search over names and locations, with queries that  *)
(* hold letters of either case and the characters % and _.                 *)
(***************************************************************************)
InitSearch == InitWith({FALSE}, {""})

Queries == {<<>>, <<"p", "O">>, <<"o", "w">>, <<"_">>, <<"%">>}
LocationQueries == {<<>>, <<"g", "O">>, <<"_">>}

NextSearch ==
    \/ \E name \in {NameA, NameB}, location \in {Pune, Goa} :
          RegisterArtisan(Some(name), Some(location), None, None, None,
                          Outcome("raise", NoObj), "refcount")
    \/ \E id \in DOMAIN artisans, product_name \in {Pot, Bowl} :
          UploadProduct(id, product_name, None, Some("250"), Photo, "ok", "refcount")
    \/ \E q \in Queries, location \in LocationQueries, limit \in {None, Some(1)} :
          Search(q, location, limit, "refcount")

SpecSearch == InitSearch /\ [][NextSearch]_vars

(***************************************************************************)
(* SpecAsset: uploads and image replacements under every way the Pillow    *)
(* pass of save_image_and_enhance can end.                                 *)
(***************************************************************************)
NormFailures == {"open_fails", "transform_fails", "save_fails", "save_truncates"}
Norms == NormFailures \cup {"ok", "write_fails"}
\* a byte stream that is no image cannot be opened; an image fails later or not at all
UploadFor(norm) == IF norm = "open_fails" THEN Notes ELSE Photo

InitAsset == InitWith({FALSE}, {""})

NextAsset ==
    \/ RegisterArtisan(Some(NameA), Some(Pune), None, None, None,
                       Outcome("raise", NoObj), "refcount")
    \/ \E id \in ArtisanIds, norm \in Norms :
          UploadProduct(id, Pot, None, None, UploadFor(norm), norm, "refcount")
    \/ \E id \in ProductIds, norm \in Norms :
          UpdateProduct(id, None, None, None, Some(UploadFor(norm)), norm, "refcount")
    \/ \E id \in ProductIds : DeleteProduct(id, "refcount")

SpecAsset == InitAsset /\ [][NextAsset]_vars

(***************************************************************************)
(* SpecSession: every handler under both ways the runtime may finalize     *)
(* the generator of get_db.                                                *)
(***************************************************************************)
InitSession == InitWith({FALSE}, {""})

NextSession ==
    \/ \E fin \in Fins :
          RegisterArtisan(Some(NameA), Some(Pune), None, None, None,
                          Outcome("raise", NoObj), fin)
    \/ \E id \in ArtisanIds, fin \in Fins : GetArtisan(id, fin)
    \/ \E id \in ArtisanIds, fin \in Fins :
          UpdateArtisan(id, None, Some(Goa), None, None, None,
                        Outcome("raise", NoObj), fin)
    \/ \E id \in ArtisanIds, fin \in Fins :
          UploadProduct(id, Pot, None, None, Photo, "ok", fin)
    \/ \E id \in ProductIds, fin \in Fins :
          UpdateProduct(id, Some(Bowl), None, None, None, "ok", fin)
    \/ \E id \in ProductIds, fin \in Fins : DeleteProduct(id, fin)
    \/ \E fin \in Fins : Search(<<>>, <<>>, None, fin)
    \/ FinalizeGenerator

SpecSession == InitSession /\ [][NextSession]_vars

(***************************************************************************)
(* SpecRegister: registrations with and without the required fields, the   *)
(* optional language and bio, under answers of the external service.       *)
(***************************************************************************)
InitRegister == InitWith({TRUE}, {""})

RequiredFields == {<<None, Some(Pune)>>, <<Some(NameA), None>>, <<Some(NameA), Some(Pune)>>}

NextRegister ==
    \/ \E required \in RequiredFields, language \in {None, Some("Hindi")},
          bio \in {None, Some("b1")} :
          \E resp \in IF bio = None THEN {Outcome("raise", NoObj)}
                      ELSE AnswersTo(bio) \cup {Outcome("object", Obj(JsonObject, "E"))} :
              RegisterArtisan(required[1], required[2], language, bio, None, resp,
                              "refcount")
    \/ \E id \in ArtisanIds : GetArtisan(id, "refcount")

SpecRegister == InitRegister /\ [][NextRegister]_vars

(***************************************************************************)
(* SpecFind: the artisan directory, searched by name and location with     *)
(* queries that hold letters of either case and the characters % and _.    *)
(***************************************************************************)
InitFind == InitWith({FALSE}, {""})

NameQueries == {<<>>, <<"a", "N">>, <<"_">>, <<"%">>}

NextFind ==
    \/ \E name \in {NameA, NameB}, location \in {Pune, Goa} :
          RegisterArtisan(Some(name), Some(location), None, None, None,
                          Outcome("raise", NoObj), "refcount")
    \/ \E name \in NameQueries, location \in LocationQueries :
          FindArtisan(name, location, "refcount")

SpecFind == InitFind /\ [][NextFind]_vars

(***************************************************************************)
(* SpecLimit: search with the limit left out, zero, positive and negative. *)
(***************************************************************************)
InitLimit == InitWith({FALSE}, {""})

Limits == {None, Some(0), Some(1), Some(-1)}

NextLimit ==
    \/ RegisterArtisan(Some(NameA), Some(Pune), None, None, None,
                       Outcome("raise", NoObj), "refcount")
    \/ \E id \in DOMAIN artisans, product_name \in {Pot, Bowl} :
          UploadProduct(id, product_name, None, Some("250"), Photo, "ok", "refcount")
    \/ \E q \in {<<>>, <<"p", "O">>}, limit \in Limits :
          Search(q, <<>>, limit, "refcount")

SpecLimit == InitLimit /\ [][NextLimit]_vars

(***************************************************************************)
(* SpecImage: the legacy image endpoint, asked for products that exist,    *)
(* were deleted or never existed, before and after the media folder is     *)
(* lost.                                                                   *)
(***************************************************************************)
InitImage == InitWith({FALSE}, {""})

NextImage ==
    \/ RegisterArtisan(Some(NameA), Some(Pune), None, None, None,
                       Outcome("raise", NoObj), "refcount")
    \/ \E id \in DOMAIN artisans :
          UploadProduct(id, Pot, None, None, Photo, "ok", "refcount")
    \/ \E id \in ProductIds : DeleteProduct(id, "refcount")
    \/ \E id \in ProductIds : GetImage(id, "refcount")
    \/ MediaLost

SpecImage == InitImage /\ [][NextImage]_vars

(***************************************************************************)
(* SpecWait: registrations and updates that carry a bio, followed through  *)
(* the call of the external service, which answers, fails or stays silent. *)
(***************************************************************************)
InitWait == InitWith({TRUE}, {""})

Form(name, location, language, bio, contact_number) ==
    [name |-> name, location |-> location, language |-> language, bio |-> bio,
     contact_number |-> contact_number]

NextWait ==
    \/ \E language \in {None, Some("Hindi")}, service \in {"answers", "silent"} :
          AwaitService("register_artisan", 0,
                       Form(Some(NameA), Some(Pune), language, Some("b1"), None),
                       service)
    \/ \E id \in DOMAIN artisans, location \in {None, Some(Goa)},
          service \in {"answers", "silent"} :
          AwaitService("update_artisan", id,
                       Form(None, location, None, Some("b2"), None), service)
    \/ \E resp \in AnswersTo(Some("b1")) : ServiceReturns(resp)

SpecWait == InitWait /\ [][NextWait]_vars

(***************************************************************************)
(* SpecDelete: products are uploaded and deleted, and the catalog is read  *)
(* through the owner's profile and through search.                         *)
(***************************************************************************)
InitDelete == InitWith({FALSE}, {""})

NextDelete ==
    \/ RegisterArtisan(Some(NameA), Some(Pune), None, None, None,
                       Outcome("raise", NoObj), "refcount")
    \/ \E id \in DOMAIN artisans, product_name \in {Pot, Bowl} :
          UploadProduct(id, product_name, None, Some("250"), Photo, "ok", "refcount")
    \/ \E id \in ProductIds : DeleteProduct(id, "refcount")
    \/ \E id \in DOMAIN artisans : GetArtisan(id, "refcount")
    \/ \E q \in {<<>>, <<"p", "O">>} : Search(q, <<>>, None, "refcount")

SpecDelete == InitDelete /\ [][NextDelete]_vars

(***************************************************************************)
(* SpecPhone: the registration flow and the profile-edit flow of the UI,   *)
(* with contact numbers typed with and without surrounding blanks, too     *)
(* short, too long and with a letter.                                      *)
(***************************************************************************)
InitPhone == InitWith({FALSE}, {""})

Phone == <<"9", "8", "7", "6", "5", "4", "3", "2", "1", "0">>
Typed == {<<>>, Phone, Tail(Phone), Phone \o <<"7">>, Tail(Phone) \o <<"a">>,
          <<" ">> \o Phone, Phone \o <<" ">>, <<" ">> \o Tail(Phone), <<" ">>}

NextPhone ==
    \/ \E name \in {<<>>, NameA}, contact_number \in Typed :
          ConfirmRegister(name, Pune, "Hindi", "story", contact_number,
                          Outcome("raise", NoObj), "refcount")
    \/ \E aid \in DOMAIN artisans, e_contact \in Typed :
          SaveProfile(aid, NameB, Goa, "English", "b2", e_contact,
                      Outcome("raise", NoObj), "refcount")
    \/ RefreshProfile("refcount")

SpecPhone == InitPhone /\ [][NextPhone]_vars

(***************************************************************************)
(* SpecOverlap: profile updates of one artisan on two workers, in every    *)
(* interleaving of their loads and commits.                                *)
(***************************************************************************)
InitOverlap == InitWith({FALSE}, {""})

NextOverlap ==
    \/ RegisterArtisan(Some(NameA), Some(Pune), None, None, Some("c1"),
                       Outcome("raise", NoObj), "refcount")
    \/ \E w \in Workers, id \in ArtisanIds, location \in {None, Some(Pune), Some(Goa)},
          contact_number \in {None, Some("c1"), Some("c2")} :
          LoadArtisan(w, id, None, location, None, None, contact_number,
                      Outcome("raise", NoObj), "refcount")
    \/ \E w \in Workers : CommitArtisan(w)

SpecOverlap == InitOverlap /\ [][NextOverlap]_vars

(***************************************************************************)
(* SpecRace: updates and deletes of one product on two workers, in every   *)
(* interleaving of their loads and commits.                                *)
(***************************************************************************)
InitRace == InitWith({FALSE}, {""})

NextRace ==
    \/ RegisterArtisan(Some(NameA), Some(Pune), None, None, None,
                       Outcome("raise", NoObj), "refcount")
    \/ \E id \in DOMAIN artisans :
          UploadProduct(id, Pot, None, Some("250"), Photo, "ok", "refcount")
    \/ \E w \in Workers, id \in ProductIds, product_name \in {None, Some(Bowl)},
          file \in {None, Some(Photo)} :
          LoadProduct(w, id, product_name, None, None, file, "ok", "refcount")
    \/ \E w \in Workers : CommitProduct(w)
    \/ \E w \in Workers, id \in ProductIds : LoadForDelete(w, id, "refcount")
    \/ \E w \in Workers : CommitDelete(w)

SpecRace == InitRace /\ [][NextRace]_vars

(***************************************************************************)
(* C1: while no client is configured, every artisan that GET /artisan/{id} *)
(* returns has bio_translated and bio_enriched equal to bio_original.      *)
(***************************************************************************)
C1_FallbackIsIdentity ==
    ~genai_client =>
        /\ \A id \in DOMAIN artisans :
              LET b == get_artisan_body(id)
              IN  b.bio_translated = b.bio_original /\ b.bio_enriched = b.bio_original
        /\ (last.op = "get_artisan" /\ last.status = 200) =>
              /\ last.body.bio_translated = last.body.bio_original
              /\ last.body.bio_enriched = last.body.bio_original

\* an artisan registered and then updated with a bio is fetched, no client configured
C1_Witness ==
    /\ ~genai_client
    /\ last.op = "get_artisan" /\ last.status = 200
    /\ last.body.bio_original = "b2"

(***************************************************************************)
(* C7: translate_and_enrich answers every failure of the external call     *)
(* with (text, text), and no registration or update ends in a server error *)
(* whatever the service answered.                                          *)
(***************************************************************************)
FailureKinds == {o.kind : o \in GenaiFailures}

C7_EnrichmentNeverFailsAWrite ==
    /\ \A i \in DOMAIN last.calls :
          last.calls[i].outcome \in FailureKinds =>
              /\ last.calls[i].translated = last.calls[i].text
              /\ last.calls[i].enriched = last.calls[i].text
    /\ last.op \in {"register_artisan", "update_artisan"} => last.status # 500

(***************************************************************************)
(* C8: one call of translate_and_enrich sends no request when the text is  *)
(* empty (it returns ("", "")) or no client is configured (it returns      *)
(* (text, text)), and exactly one request otherwise, failed or not.        *)
(***************************************************************************)
C8_OneRequestPerCall ==
    \A i \in DOMAIN last.calls :
        LET c == last.calls[i]
        IN  /\ Len(c.sent) = IF c.text = "" \/ ~genai_client THEN 0 ELSE 1
            /\ c.text = "" => c.translated = "" /\ c.enriched = ""
            /\ (c.text # "" /\ ~genai_client) =>
                  c.translated = c.text /\ c.enriched = c.text

\* a request to the service failed and was the only one sent
C8_Witness ==
    /\ genai_client
    /\ last.calls # <<>>
    /\ last.calls[1].outcome = "raise"
    /\ Len(last.calls[1].sent) = 1

(***************************************************************************)
(* C2: a successful update_artisan changes no field of the artisan that    *)
(* the request did not supply (the three bio fields only with a bio), no   *)
(* other artisan and no product.                                           *)
(***************************************************************************)
UpdateArtisanFrame ==
    LET id == last'.id
        given == last'.supplied
        old == artisans[id]
        new == artisans'[id]
    IN  /\ "name" \notin given => new.name = old.name
        /\ "location" \notin given => new.location = old.location
        /\ "language" \notin given => new.language = old.language
        /\ "contact_number" \notin given => new.contact_number = old.contact_number
        /\ "bio" \notin given =>
              /\ new.bio_original = old.bio_original
              /\ new.bio_translated = old.bio_translated
              /\ new.bio_enriched = old.bio_enriched
        /\ DOMAIN artisans' = DOMAIN artisans
        /\ \A other \in DOMAIN artisans \ {id} : artisans'[other] = artisans[other]
        /\ products' = products

C2_UpdateOverwritesOnlySupplied ==
    [][(nreq' # nreq /\ last'.op = "update_artisan" /\ last'.status = 200)
          => UpdateArtisanFrame]_vars

\* an update carrying only location, beside a second artisan and a product
C2_Witness ==
    /\ last.op = "update_artisan" /\ last.status = 200
    /\ last.supplied = {"location"}
    /\ Cardinality(DOMAIN artisans) = 2
    /\ DOMAIN products # {}
    /\ artisans[last.id].location = Goa
    /\ artisans[last.id].name = NameA
    /\ artisans[last.id].bio_original = "b1"

(***************************************************************************)
(* C3: a delete_product that directly follows a successful delete_product  *)
(* of the same id answers 404 and changes nothing, and so does a           *)
(* delete_product of an id that no product ever had.                       *)
(***************************************************************************)
CatalogUnchanged ==
    /\ artisans' = artisans
    /\ products' = products
    /\ files' = files

C3_SecondDeleteNotFound ==
    [][(nreq' # nreq /\ last'.op = "delete_product") =>
          /\ (last.op = "delete_product" /\ last.status = 200 /\ last'.id = last.id) =>
                (last'.status = 404 /\ CatalogUnchanged)
          /\ last'.id > product_seq => (last'.status = 404 /\ CatalogUnchanged)]_vars

\* a product was created, is gone, and the last request was a refused delete of it
C3_Witness ==
    /\ last.op = "delete_product" /\ last.status = 404
    /\ last.id \in 1..product_seq
    /\ last.id \notin DOMAIN products

(***************************************************************************)
(* C5: upload_product naming an artisan that does not exist answers 404    *)
(* and creates no product; every product's artisan_id is the id of an      *)
(* artisan.                                                                *)
(***************************************************************************)
ProductsHaveArtisans ==
    \A p \in DOMAIN products : products[p].artisan_id \in DOMAIN artisans

StaticServes(url) ==
    /\ Len(url) >= 2
    /\ url[Len(url) - 1] = "static"
    /\ Append(MEDIA_DIR, url[Len(url)]) \in DOMAIN files

C6_ListedImageResolves ==
    /\ \A p \in DOMAIN products :
          LET a == products[p].artisan_id
              stored == products[p].image_path
          IN  /\ a \in DOMAIN artisans
              /\ Len(stored) = 1
              /\ \E item \in get_artisan_body(a).products :
                    /\ item.id = p
                    /\ item.image_url = absolute_image_url(backend_origin, stored[1])
                    /\ StaticServes(item.image_url)
              /\ Append(MEDIA_DIR, PathName(stored)) \in DOMAIN files
    /\ (last.op = "get_artisan" /\ last.status = 200) =>
          \A item \in last.body.products : StaticServes(item.image_url)
    /\ (last.op = "upload_product" /\ last.status = 200) =>
          /\ StaticServes(last.body.image)
          /\ \E item \in get_artisan_body(last.id).products :
                item.id = last.body.id /\ item.image_url = last.body.image

\* the profile lists a product whose image was replaced after the upload
C6_Witness ==
    /\ last.op = "get_artisan" /\ last.status = 200
    /\ backend_origin # ""
    /\ \E item \in last.body.products :
          /\ products[item.id].image_path = <<_uuid_name(2, ".png")>>
          /\ item.image_url = <<backend_origin, "static", _uuid_name(2, ".png")>>

(***************************************************************************)
(* C4: search returns only products whose name contains q, and whose       *)
(* owner's location contains location when one is given, as substrings     *)
(* compared without case; each result carries the summary of the product's *)
(* owner.                                                                  *)
(***************************************************************************)
ContainsNoCase(str, q) ==
    \E i \in 1..(Len(str) + 1) :
        /\ i + Len(q) - 1 <= Len(str)
        /\ \A k \in 1..Len(q) : Lower(str[i + k - 1]) = Lower(q[k])

C4_SearchMatchesSubstrings ==
    last.op = "search" =>
        \A item \in last.body.results :
            /\ item.product_id \in DOMAIN products
            /\ ContainsNoCase(item.name, last.body.q)
            /\ last.body.location # <<>> =>
                  ContainsNoCase(item.artisan.location, last.body.location)
            /\ LET owner == products[item.product_id].artisan_id
               IN  /\ item.artisan.id = owner
                   /\ item.artisan.name = artisans[owner].name
                   /\ item.artisan.location = artisans[owner].location

(***************************************************************************)
(* C9: when the Pillow pass of save_image_and_enhance fails at any step,   *)
(* the request does not fail and the stored file holds the uploaded bytes. *)
(***************************************************************************)
C9_FailedPassKeepsRawBytes ==
    (last.asset # <<>> /\ last.asset[1].norm \in NormFailures) =>
        /\ last.status # 500
        /\ Append(MEDIA_DIR, last.asset[1].name) \in DOMAIN files
        /\ files[Append(MEDIA_DIR, last.asset[1].name)]
              = Content(last.asset[1].data, "raw")

(***************************************************************************)
(* C10: when a request has ended, its session was opened, used and then    *)
(* closed: it is not left open and was not closed before its use.          *)
(***************************************************************************)
C10_SessionClosedAtExit ==
    session # NoSession => session = <<"open", "use", "close">>

(***************************************************************************)
(* C11: register_artisan without name or location answers 4xx, creates no  *)
(* artisan and calls no enrichment; with both it creates exactly one       *)
(* artisan under an id no artisan had, whose bio_original is the submitted *)
(* bio and whose language is "English" when none was submitted.            *)
(***************************************************************************)
RegisterCreatesOne ==
    \E id \in DOMAIN artisans' \ DOMAIN artisans :
        /\ DOMAIN artisans' = DOMAIN artisans \cup {id}
        /\ \A other \in DOMAIN artisans : artisans'[other] = artisans[other]
        /\ last'.status = 200 /\ last'.body.id = id
        /\ artisans'[id].bio_original = last'.calls[1].text
        /\ "language" \notin last'.supplied => artisans'[id].language = "English"

C11_RegisterValidatesAndCreates ==
    [][(nreq' # nreq /\ last'.op = "register_artisan") =>
          IF {"name", "location"} \subseteq last'.supplied
          THEN RegisterCreatesOne
          ELSE /\ last'.status \in 400..499
               /\ artisans' = artisans
               /\ last'.calls = <<>>]_vars

(***************************************************************************)
(* C12: every product's image_path is one path component, the name of the  *)
(* file, whatever directory save_image_and_enhance wrote it to; fix_paths  *)
(* finds nothing to repair.                                                *)
(***************************************************************************)
C12_ImagePathIsBareFilename ==
    /\ \A p \in DOMAIN products :
          /\ Len(products[p].image_path) = 1
          /\ PathParent(products[p].image_path) = <<>>
    /\ fix_paths(products) = products

\* a product whose image was replaced, the file written under DATA_DIR and moved
C12_Witness ==
    /\ last.op = "update_product" /\ last.status = 200 /\ last.asset # <<>>
    /\ products[last.id].image_path = <<last.asset[1].name>>
    /\ PathParent(save_image_and_enhance(<<>>, Photo, uuid_seq, "ok").path) = DATA_DIR
    /\ \E q \in DOMAIN products : q # last.id

(***************************************************************************)
(* C13: find_artisan succeeds with at most 50 artisans, each of whose name *)
(* contains the given name and whose location contains the given location  *)
(* as substrings compared without case (an empty predicate filters         *)
(* nothing).                                                               *)
(***************************************************************************)
C13_FindMatchesSubstrings ==
    last.op = "find_artisan" =>
        /\ last.status = 200
        /\ Cardinality(last.body.results) <= 50
        /\ \A item \in last.body.results :
              /\ item.id \in DOMAIN artisans
              /\ ContainsNoCase(item.name, last.body.name)
              /\ ContainsNoCase(item.location, last.body.location)

(***************************************************************************)
(* C14: search answers every limit, with at most limit results, and at     *)
(* most 20 when the request carries no limit; a limit below zero allows    *)
(* none.                                                                   *)
(***************************************************************************)
C14_SearchReturnsAtMostLimit ==
    last.op = "search" =>
        /\ last.status = 200
        /\ last.body.limit >= 0 =>
              Cardinality(last.body.results) <= last.body.limit
        /\ last.body.limit < 0 => last.body.results = {}
        /\ "limit" \notin last.supplied => Cardinality(last.body.results) <= 20

(***************************************************************************)
(* C15: get_image answers 404 when the product does not exist and when its *)
(* file is not in the media directory, and the file otherwise; it never    *)
(* ends in a server error.                                                 *)
(***************************************************************************)
C15_GetImageNotFound ==
    [][(nreq' # nreq /\ last'.op = "get_image") =>
          LET id == last'.id
              missing == \/ id \notin DOMAIN products
                         \/ Append(MEDIA_DIR, PathName(products[id].image_path))
                               \notin DOMAIN files
          IN  /\ last'.status \in {200, 404}
              /\ missing <=> last'.status = 404]_vars

\* the product is in the catalog, its file is gone, and the answer was 404
C15_Witness ==
    /\ last.op = "get_image" /\ last.status = 404
    /\ last.id \in DOMAIN products
    /\ files = <<>>

(***************************************************************************)
(* C16: a successful update_artisan that carries a bio enriches it once,   *)
(* from the language the artisan has after the update; one that carries no *)
(* bio calls no enrichment and leaves bio_translated and bio_enriched as   *)
(* they were, also when it changes the language.                           *)
(***************************************************************************)
C16_EnrichmentUsesUpdatedLanguage ==
    [][(nreq' # nreq /\ last'.op = "update_artisan" /\ last'.status = 200) =>
          LET old == artisans[last'.id]
              new == artisans'[last'.id]
              source == IF new.language # "" THEN new.language ELSE "auto"
          IN  IF "bio" \in last'.supplied
              THEN /\ Len(last'.calls) = 1
                   /\ \A k \in DOMAIN last'.calls[1].sent :
                         last'.calls[1].sent[k].from_lang = source
              ELSE /\ last'.calls = <<>>
                   /\ new.bio_translated = old.bio_translated
                   /\ new.bio_enriched = old.bio_enriched]_vars

\* one request changed the language of a Hindi profile and supplied a bio
C16_Witness ==
    /\ last.op = "update_artisan" /\ last.status = 200
    /\ {"language", "bio"} \subseteq last.supplied
    /\ Len(last.calls) = 1 /\ Len(last.calls[1].sent) = 1
    /\ last.calls[1].sent[1].from_lang = "English"
    /\ artisans[last.id].language = "English"

(***************************************************************************)
(* C17: upload_product and update_product write the catalog only when the  *)
(* asset write has succeeded: a request whose asset write fails creates no *)
(* product and changes no image_path, and a request that stores an image   *)
(* and changes the catalog leaves the file with the uploaded bytes in the  *)
(* media directory.                                                        *)
(***************************************************************************)
C17_CatalogWriteAfterAssetWrite ==
    [][(nreq' # nreq /\ last'.asset # <<>>) =>
          LET asset == last'.asset[1]
              stored == Append(MEDIA_DIR, asset.name)
          IN  /\ asset.norm = "write_fails" =>
                    /\ last'.status = 500
                    /\ products' = products
                    /\ product_seq' = product_seq
              /\ products' # products =>
                    /\ stored \in DOMAIN files'
                    /\ files'[stored].data = asset.data]_vars

\* the replacement of an existing product's image failed at the asset write
C17_Witness ==
    /\ last.op = "update_product" /\ last.status = 500
    /\ last.asset # <<>> /\ last.asset[1].norm = "write_fails"
    /\ last.id \in DOMAIN products
    /\ products[last.id].image_path # <<last.asset[1].name>>
    /\ Append(MEDIA_DIR, PathName(products[last.id].image_path)) \in DOMAIN files

(***************************************************************************)
(* C18: a successful update_product with a replacement image points        *)
(* image_path at the new file, whose name no stored file had, and the      *)
(* prior file stays; no request removes or rewrites a stored file.         *)
(***************************************************************************)
C18_AssetsOnlyGrow ==
    [][nreq' # nreq =>
          /\ \A path \in DOMAIN files :
                path \in DOMAIN files' /\ files'[path] = files[path]
          /\ (last'.op = "update_product" /\ last'.status = 200 /\ last'.asset # <<>>) =>
                LET new == last'.asset[1].name
                    prior == products[last'.id].image_path
                IN  /\ products'[last'.id].image_path = <<new>>
                    /\ Append(MEDIA_DIR, new) \notin DOMAIN files
                    /\ Append(MEDIA_DIR, new) \in DOMAIN files'
                    /\ \A p \in DOMAIN products : products[p].image_path # <<new>>
                    /\ Append(MEDIA_DIR, PathName(prior)) \in DOMAIN files']_vars

\* an image was replaced and both the prior and the new file are stored
C18_Witness ==
    /\ last.op = "update_product" /\ last.status = 200 /\ last.asset # <<>>
    /\ last.asset[1].name = _uuid_name(2, ".png")
    /\ {Append(MEDIA_DIR, _uuid_name(1, ".png")), Append(MEDIA_DIR, _uuid_name(2, ".png"))}
          \subseteq DOMAIN files
    /\ products[last.id].image_path = <<_uuid_name(2, ".png")>>

(***************************************************************************)
(* C19: both components of every result of translate_and_enrich are        *)
(* strings, whatever the service put under "translated" and "enriched".    *)
(***************************************************************************)
C19_EnrichmentReturnsStrings ==
    \A i \in DOMAIN last.calls :
        IsString(last.calls[i].translated) /\ IsString(last.calls[i].enriched)

(***************************************************************************)
(* C20: a register_artisan or update_artisan request that waits for the    *)
(* external service can always go on: the service returns, or a timeout    *)
(* ends the call and the request completes with the identity fallback,     *)
(* also when the service stays silent.                                     *)
(***************************************************************************)
C20_EnrichmentCallIsBounded ==
    InFlight => ENABLED (\E resp \in AnswersTo(Some("b1")) : ServiceReturns(resp))

(***************************************************************************)
(* C23: a request that answers 404 changes no artisan, no product and no   *)
(* stored file.                                                            *)
(***************************************************************************)
C23_NotFoundChangesNothing ==
    [][(nreq' # nreq /\ last'.status = 404) =>
          /\ artisans' = artisans
          /\ products' = products
          /\ files' = files]_vars

(***************************************************************************)
(* C25: a successful delete_product removes that product and nothing else: *)
(* every artisan, every other product and every stored file, the deleted   *)
(* product's image included, stay as they were, and neither the owner's    *)
(* profile nor search returns the product from then on.                    *)
(***************************************************************************)
ListedIds(artisan_id) == {item.id : item \in get_artisan_body(artisan_id).products}

C25_DeleteRemovesExactlyOne ==
    /\ [][(nreq' # nreq /\ last'.op = "delete_product" /\ last'.status = 200) =>
             LET id == last'.id
             IN  /\ DOMAIN products' = DOMAIN products \ {id}
                 /\ \A p \in DOMAIN products' : products'[p] = products[p]
                 /\ artisans' = artisans
                 /\ files' = files
                 /\ Append(MEDIA_DIR, PathName(products[id].image_path))
                       \in DOMAIN files']_vars
    /\ [](last.op = "delete_product" /\ last.status = 200 =>
             /\ \A a \in DOMAIN artisans : last.id \notin ListedIds(a)
             /\ last.id \notin SearchMatches(<<>>, <<>>))
    /\ [](last.op = "get_artisan" /\ last.status = 200 =>
             \A item \in last.body.products : item.id \in DOMAIN products)
    /\ [](last.op = "search" /\ last.status = 200 =>
             \A item \in last.body.results : item.product_id \in DOMAIN products)

\* one of two products was deleted; the other and both image files remain
C25_Witness ==
    /\ last.op = "delete_product" /\ last.status = 200
    /\ last.id \notin DOMAIN products
    /\ Cardinality(DOMAIN products) = 1
    /\ Cardinality(DOMAIN files) = 2

(***************************************************************************)
(* C22: every contact number that the registration flow or the profile-    *)
(* edit flow sends is a string of exactly 10 digits (the value sent, not a *)
(* trimmed copy), so every contact number stored through the UI is one;    *)
(* and a flow that refuses a contact number sends no request.              *)
(***************************************************************************)
TenDigits(s) == Len(s) = 10 /\ \A i \in DOMAIN s : s[i] \in Digits

C22_SubmittedContactIsTenDigits ==
    /\ [](\A a \in DOMAIN artisans : TenDigits(artisans[a].contact_number))
    /\ [][last'.op \in {"register_flow", "edit_flow"} =>
             /\ nreq' = nreq
             /\ artisans' = artisans]_vars

(***************************************************************************)
(* C21: when two update_artisan requests on the same artisan overlap (both *)
(* load the row before either commits), both answer ok and both supply a   *)
(* field, the stored value of that field after the second commit is the    *)
(* value the second committer supplied.                                    *)
(***************************************************************************)
Column(k) == IF k = "bio" THEN "bio_original" ELSE k

\* w committed while v held its copy, and v has committed since
CommittedInOrder(w, v) ==
    /\ w # v
    /\ workers[w].pc = "done" /\ workers[w].op = "update_artisan"
    /\ workers[v].pc = "done" /\ workers[v].op = "update_artisan"
    /\ workers[v].id = workers[w].id
    /\ v \in workers[w].raced

C21_LastCommitterWins ==
    \A w, v \in Workers :
        CommittedInOrder(w, v) =>
            \A k \in Supplied(workers[w].form) \cap Supplied(workers[v].form) :
                artisans[workers[v].id][Column(k)] = Get(workers[v].form[k])

(***************************************************************************)
(* C24: an update_product and a delete_product of the same product that    *)
(* run concurrently each end with their success response or NotFound, and  *)
(* a product that was deleted never exists again.                          *)
(***************************************************************************)
C24_UpdateDeleteRaceIsClean ==
    /\ [](last.op \in {"update_product", "delete_product"} =>
             last.status \in {200, 404})
    /\ [][\A id \in 1..product_seq :
             id \notin DOMAIN products => id \notin DOMAIN products']_vars

====
